---- MODULE Spec2Model ----
(***************************************************************************)
(* Model of main.py: a Streamlit dashboard script that scans DATA_DIR,     *)
(* loads per-school environment CSV files and one growth workbook, stops   *)
(* when either is missing, and otherwise renders three tabs.               *)
(*                                                                         *)
(* Text is modelled as a sequence of Unicode code points, so that          *)
(* unicodedata.normalize("NFC", .) is a real conversion (canonical         *)
(* decomposition followed by canonical composition of Hangul, the only     *)
(* composable script the file names and sheet names use).                  *)
(***************************************************************************)
EXTENDS Integers, Sequences, FiniteSets, TLC

----------------------------------------------------------------------------
(* Unicode Hangul composition constants (Unicode ch. 3.12), as used by     *)
(* unicodedata.normalize.                                                  *)
SBase == 44032
LBase == 4352
VBase == 4449
TBase == 4519
LCount == 19
VCount == 21
TCount == 28

IsL(c) == c >= LBase /\ c < LBase + LCount
IsV(c) == c >= VBase /\ c < VBase + VCount
IsT(c) == c > TBase /\ c < TBase + TCount
IsSyllable(c) == c >= SBase /\ c < SBase + LCount * VCount * TCount
IsLV(c) == IsSyllable(c) /\ (c - SBase) % TCount = 0

\* canonical decomposition of one code point
Decompose(c) ==
    IF IsSyllable(c)
    THEN LET si == c - SBase
             l == LBase + (si \div (VCount * TCount))
             v == VBase + ((si % (VCount * TCount)) \div TCount)
             t == TBase + (si % TCount)
         IN IF t = TBase THEN <<l, v>> ELSE <<l, v, t>>
    ELSE <<c>>

RECURSIVE NFD(_)
NFD(s) == IF s = <<>> THEN <<>> ELSE Decompose(Head(s)) \o NFD(Tail(s))

\* canonical composition: out is the composed prefix, s the rest
RECURSIVE Compose(_, _)
Compose(out, s) ==
    IF s = <<>> THEN out
    ELSE LET c == Head(s)
             n == Len(out)
         IN IF n > 0 /\ IsL(out[n]) /\ IsV(c)
            THEN Compose([out EXCEPT ![n] =
                     SBase + ((out[n] - LBase) * VCount + (c - VBase)) * TCount],
                     Tail(s))
            ELSE IF n > 0 /\ IsLV(out[n]) /\ IsT(c)
            THEN Compose([out EXCEPT ![n] = out[n] + (c - TBase)], Tail(s))
            ELSE Compose(Append(out, c), Tail(s))

NFC(s) == Compose(<<>>, NFD(s))

\* a plausible slip: the text is returned as stored, not normalized
normalize_text_identity(text) == text

\* normalize_text(text) = unicodedata.normalize("NFC", text)
normalize_text(text) == NFC(text)

----------------------------------------------------------------------------
(* str and pathlib helpers *)

Dot == 46

\* str.lower() on the code points in use: ASCII upper case only
LowerChar(c) == IF c >= 65 /\ c <= 90 THEN c + 32 ELSE c
Lower(s) == [i \in 1..Len(s) |-> LowerChar(s[i])]

\* index of the last "." of a name, 0 when there is none
RECURSIVE RFindDot(_, _)
RFindDot(s, i) == IF i = 0 THEN 0 ELSE IF s[i] = Dot THEN i ELSE RFindDot(s, i - 1)

\* PurePath.suffix: the part from the last dot, unless the dot leads or ends the name
HasSuffix(name) == LET i == RFindDot(name, Len(name)) IN i > 1 /\ i < Len(name)
Suffix(name) ==
    IF HasSuffix(name) THEN SubSeq(name, RFindDot(name, Len(name)), Len(name)) ELSE <<>>
\* PurePath.stem
Stem(name) ==
    IF HasSuffix(name) THEN SubSeq(name, 1, RFindDot(name, Len(name)) - 1) ELSE name

StartsWith(s, p) == Len(s) >= Len(p) /\ SubSeq(s, 1, Len(p)) = p

\* str.replace(old, ""): every non-overlapping occurrence, left to right
RECURSIVE Remove(_, _)
Remove(s, old) ==
    IF s = <<>> THEN <<>>
    ELSE IF StartsWith(s, old) THEN Remove(SubSeq(s, Len(old) + 1, Len(s)), old)
    ELSE <<Head(s)>> \o Remove(Tail(s), old)

\* the literals of the source, as code points (source literals are NFC)
Songdo == <<49569, 46020, 44256>>
Haneul == <<54616, 45720, 44256>>
Ara == <<50500, 46972, 44256>>
Dongsan == <<46041, 49328, 44256>>
ALL == <<51204, 52404>>
EnvMarker == <<95, 54872, 44221, 45936, 51060, 53552>>
CsvSuffix == <<46, 99, 115, 118>>
XlsxSuffix == <<46, 120, 108, 115, 120>>

UpperCsvSuffix == <<46, 67, 83, 86>>
NotesStem == <<110, 111, 116, 101, 115>>
ReadmeStem == <<82, 69, 65, 68, 77, 69>>
GrowthStem == <<49373, 50977, 44208, 44284>>

----------------------------------------------------------------------------
(* dict: insertion-ordered mapping, a sequence of [k, v] with distinct k *)

DictKeys(d) == {d[i].k : i \in 1..Len(d)}
DictHas(d, key) == key \in DictKeys(d)
DictGet(d, key) == d[CHOOSE i \in 1..Len(d) : d[i].k = key].v
\* d[key] = value: a new key is appended, an old key keeps its position
DictSet(d, key, value) ==
    IF DictHas(d, key)
    THEN [i \in 1..Len(d) |-> IF d[i].k = key THEN [k |-> key, v |-> value] ELSE d[i]]
    ELSE Append(d, [k |-> key, v |-> value])

(* DataFrame: a set of column names and a sequence of rows (column -> number) *)

EmptyFrame == [cols |-> {}, rows |-> <<>>]

RECURSIVE SumCol(_, _)
SumCol(rows, col) == IF rows = <<>> THEN 0 ELSE Head(rows)[col] + SumCol(Tail(rows), col)

\* a float mean, as the exact fraction num/den; NaN for the mean of no rows
NaN == [nan |-> TRUE, num |-> 0, den |-> 1]
\* Series.mean(): NaN on an empty series, else sum / count
Mean(df, col) ==
    IF df.rows = <<>> THEN NaN
    ELSE [nan |-> FALSE, num |-> SumCol(df.rows, col), den |-> Len(df.rows)]
\* float comparison a > b with NaN never greater and never exceeded
Greater(a, b) == ~a.nan /\ ~b.nan /\ a.num * b.den > b.num * a.den
SameValue(a, b) == ~a.nan /\ ~b.nan /\ a.num * b.den = b.num * a.den

\* pd.concat(frames)[col].mean(): rows of the frames that have the column
RECURSIVE ConcatSum(_, _)
ConcatSum(d, col) ==
    IF d = <<>> THEN 0
    ELSE (IF col \in Head(d).v.cols THEN SumCol(Head(d).v.rows, col) ELSE 0)
         + ConcatSum(Tail(d), col)
RECURSIVE ConcatCount(_, _)
ConcatCount(d, col) ==
    IF d = <<>> THEN 0
    ELSE (IF col \in Head(d).v.cols THEN Len(Head(d).v.rows) ELSE 0)
         + ConcatCount(Tail(d), col)
ConcatHasCol(d, col) == \E i \in 1..Len(d) : col \in d[i].v.cols
ConcatMean(d, col) ==
    IF ConcatCount(d, col) = 0 THEN NaN
    ELSE [nan |-> FALSE, num |-> ConcatSum(d, col), den |-> ConcatCount(d, col)]

----------------------------------------------------------------------------
(* find_file_by_normalized_name.  A directory is [exists, files]: whether   *)
(* the path exists and the names iterdir() yields, in order.  The result is *)
(* [raised, file]: raised when iterdir() raises FileNotFoundError, file     *)
(* <<>> for None and <<name>> for the entry returned.                       *)

RECURSIVE FindLoop(_, _)
FindLoop(names, target_nfc) ==
    IF names = <<>> THEN <<>>
    ELSE IF normalize_text(Head(names)) = target_nfc THEN <<Head(names)>>
    ELSE FindLoop(Tail(names), target_nfc)

find_file_by_normalized_name(directory, target_name) ==
    LET target_nfc == normalize_text(target_name) IN
    IF ~directory.exists THEN [raised |-> TRUE, file |-> <<>>]
    ELSE [raised |-> FALSE, file |-> FindLoop(directory.files, target_nfc)]

----------------------------------------------------------------------------
(* load_environment_data: the loop over DATA_DIR.iterdir() *)

\* a plausible slip: the try encloses the loop, so the first unparseable
\* file ends the loop and the files after it are never read
RECURSIVE LoadEnvAbortOnError(_, _, _)
LoadEnvAbortOnError(files, env, errs) ==
    IF files = <<>> THEN [env_data |-> env, errors |-> errs]
    ELSE LET file == Head(files) IN
         IF Lower(Suffix(file.name)) = CsvSuffix
         THEN IF file.readable
              THEN LoadEnvAbortOnError(Tail(files),
                       DictSet(env, Remove(normalize_text(Stem(file.name)), EnvMarker),
                               file.df), errs)
              ELSE [env_data |-> env, errors |-> Append(errs, file.name)]
         ELSE LoadEnvAbortOnError(Tail(files), env, errs)

\* files: the rest of the iteration; env: env_data so far; errs: st.error
\* messages so far (the name of each file that failed to parse)
RECURSIVE LoadEnvLoop(_, _, _)
LoadEnvLoop(files, env, errs) ==
    IF files = <<>> THEN [env_data |-> env, errors |-> errs]
    ELSE LET file == Head(files) IN
         IF Lower(Suffix(file.name)) = CsvSuffix
         THEN IF file.readable
              THEN LoadEnvLoop(Tail(files),
                       DictSet(env, Remove(normalize_text(Stem(file.name)), EnvMarker),
                               file.df), errs)
              ELSE LoadEnvLoop(Tail(files), env, Append(errs, file.name))
         ELSE LoadEnvLoop(Tail(files), env, errs)

load_environment_data_abort(files) == LoadEnvAbortOnError(files, <<>>, <<>>)

load_environment_data(files) == LoadEnvLoop(files, <<>>, <<>>)

(* load_growth_data *)

\* the growth load's failure value, and a loaded dictionary
None == [none |-> TRUE, d |-> <<>>]
Loaded(d) == [none |-> FALSE, d |-> d]

\* the first .xlsx of the iteration: <<>> when there is none, else <<file>>
RECURSIVE FirstXlsx(_)
FirstXlsx(files) ==
    IF files = <<>> THEN <<>>
    ELSE IF Lower(Suffix(Head(files).name)) = XlsxSuffix THEN <<Head(files)>>
    ELSE FirstXlsx(Tail(files))

\* the loop over xls.sheet_names inside the try: None as soon as a sheet raises
RECURSIVE ReadSheets(_, _)
ReadSheets(sheets, growth) ==
    IF sheets = <<>> THEN Loaded(growth)
    ELSE IF Head(sheets).readable
    THEN ReadSheets(Tail(sheets),
             DictSet(growth, normalize_text(Head(sheets).name), Head(sheets).df))
    ELSE None

load_growth_data(files) ==
    LET xlsx_file == FirstXlsx(files) IN
    IF xlsx_file = <<>> THEN None
    ELSE IF ~xlsx_file[1].readable THEN None
    ELSE ReadSheets(xlsx_file[1].sheets, <<>>)

----------------------------------------------------------------------------
(* The module-level configuration *)

EC_CONDITIONS ==
    << [k |-> Songdo, v |-> 1], [k |-> Haneul, v |-> 2],
       [k |-> Ara, v |-> 4], [k |-> Dongsan, v |-> 8] >>

Groups == DictKeys(EC_CONDITIONS)

SCHOOLS == <<ALL>> \o [i \in 1..Len(EC_CONDITIONS) |-> EC_CONDITIONS[i].k]

\* EC_CONDITIONS.get(school): <<>> for None, else <<ec>>
ECGet(school) ==
    IF DictHas(EC_CONDITIONS, school) THEN <<DictGet(EC_CONDITIONS, school)>> ELSE <<>>

----------------------------------------------------------------------------
(* The files a data directory may hold *)

EnvCols == {"time", "temperature", "humidity", "ph", "ec"}
GrowthCols == {"leaf_count", "shoot_length", "fresh_weight"}

EnvRow(t, temp, hum, ph, ec) ==
    [time |-> t, temperature |-> temp, humidity |-> hum, ph |-> ph, ec |-> ec]
GrowthRow(leaf, shoot, weight) ==
    [leaf_count |-> leaf, shoot_length |-> shoot, fresh_weight |-> weight]
Weights(ws) ==
    [cols |-> GrowthCols, rows |-> [i \in 1..Len(ws) |-> GrowthRow(3, 40, ws[i])]]

CsvFile(name, readable, df) ==
    [name |-> name, readable |-> readable, df |-> df, sheets |-> <<>>]
XlsxFile(name, readable, sheets) ==
    [name |-> name, readable |-> readable, df |-> EmptyFrame, sheets |-> sheets]
Sheet(name, readable, df) == [name |-> name, readable |-> readable, df |-> df]

EnvName(group) == group \o EnvMarker \o CsvSuffix

\* a school's environment file, name stored composed
SongdoCsv ==
    CsvFile(EnvName(Songdo), TRUE,
        [cols |-> EnvCols, rows |-> <<EnvRow(1, 20, 50, 6, 1), EnvRow(2, 22, 54, 6, 1)>>])
\* the same school's file again, name stored decomposed (a second directory entry)
SongdoCsvNFD ==
    CsvFile(NFD(EnvName(Songdo)), TRUE,
        [cols |-> EnvCols, rows |-> <<EnvRow(1, 25, 60, 7, 2)>>])
\* a header-only file, name stored decomposed, upper-case suffix
HaneulCsv ==
    CsvFile(NFD(Haneul \o EnvMarker) \o UpperCsvSuffix, TRUE,
        [cols |-> EnvCols, rows |-> <<>>])
\* a file pd.read_csv raises on
AraCsv == CsvFile(EnvName(Ara), FALSE, EmptyFrame)
\* a .csv file that is no school's environment file
NotesCsv ==
    CsvFile(NotesStem \o CsvSuffix, TRUE, [cols |-> {"memo"}, rows |-> <<[memo |-> 1]>>])

GrowthXlsx ==
    XlsxFile(GrowthStem \o XlsxSuffix, TRUE,
        << Sheet(Songdo, TRUE, Weights(<<4, 5, 6>>)),
           Sheet(Haneul, TRUE, Weights(<<10, 10>>)) >>)
\* sheets out of the configured order, one name decomposed, one sheet empty
TiedXlsx ==
    XlsxFile(NFD(GrowthStem) \o XlsxSuffix, TRUE,
        << Sheet(NFD(Ara), TRUE, Weights(<<5>>)),
           Sheet(Songdo, TRUE, Weights(<<4, 6>>)),
           Sheet(Dongsan, TRUE, Weights(<<>>)) >>)
\* a workbook whose second sheet pd.read_excel raises on
BadSheetXlsx ==
    XlsxFile(NotesStem \o XlsxSuffix, TRUE,
        << Sheet(Songdo, TRUE, Weights(<<7>>)), Sheet(Ara, FALSE, EmptyFrame) >>)
\* a workbook pd.ExcelFile raises on
BadXlsx == XlsxFile(ReadmeStem \o XlsxSuffix, FALSE, <<>>)

Universe ==
    { SongdoCsv, SongdoCsvNFD, HaneulCsv, AraCsv, NotesCsv,
      GrowthXlsx, TiedXlsx, BadSheetXlsx, BadXlsx }

\* the most files a data directory holds
MaxFiles == 3

Range(seq) == {seq[i] : i \in 1..Len(seq)}
\* every order in which iterdir() may yield the files of S
Orders(S) ==
    {f \in [1..Cardinality(S) -> S] : \A i, j \in 1..Cardinality(S) : f[i] = f[j] => i = j}
Listings(U, max) ==
    UNION {Orders(S) : S \in {T \in SUBSET U : Cardinality(T) <= max}}

----------------------------------------------------------------------------
(* The script's state *)

VARIABLES
    listing,         \* the files of DATA_DIR in the order iterdir() yields them
                     \* in this server process
    cache,           \* st.cache_data: the memoized results of the two loaders
    widget,          \* the sidebar selectbox's session value
    pc,              \* the script's position
    env_data,        \* dict school -> DataFrame
    growth_data,     \* None, or dict sheet name -> DataFrame
    messages,        \* st.error outputs of this run
    selected_school,
    overview_rows, total_plants, avg_temp, avg_hum, c4,     \* tab1
    avg_env,                                                 \* tab2
    summary, best,                                           \* tab3
    rendered,        \* the sections drawn in this run, in order
    prev,            \* what the previous run of the script ended with
    r_dir, r_calls   \* a directory and the find_file_by_normalized_name calls on it

dataVars == <<env_data, growth_data, messages>>
tab1Vars == <<overview_rows, total_plants, avg_temp, avg_hum, c4>>
tab3Vars == <<summary, best>>
procVars == <<listing, cache, widget, prev>>
resolverVars == <<r_dir, r_calls>>
vars == <<listing, cache, widget, pc, env_data, growth_data, messages, selected_school,
          overview_rows, total_plants, avg_temp, avg_hum, c4, avg_env, summary, best,
          rendered, prev, r_dir, r_calls>>

NoCache == [env |-> <<>>, growth |-> <<>>]
NoPrev == [pc |-> "none", avg_env |-> <<>>, summary |-> <<>>, best |-> <<>>]

\* the script's variables before its first statement
ScriptStart ==
    /\ env_data = <<>>
    /\ growth_data = None
    /\ messages = <<>>
    /\ selected_school = ALL
    /\ overview_rows = <<>>
    /\ total_plants = 0
    /\ avg_temp = NaN
    /\ avg_hum = NaN
    /\ c4 = <<>>
    /\ avg_env = <<>>
    /\ summary = <<>>
    /\ best = <<>>
    /\ rendered = <<>>

\* a run of the script starts from its first statement
ResetScript ==
    /\ env_data' = <<>>
    /\ growth_data' = None
    /\ messages' = <<>>
    /\ selected_school' = ALL
    /\ overview_rows' = <<>>
    /\ total_plants' = 0
    /\ avg_temp' = NaN
    /\ avg_hum' = NaN
    /\ c4' = <<>>
    /\ avg_env' = <<>>
    /\ summary' = <<>>
    /\ best' = <<>>
    /\ rendered' = <<>>

ResolverIdle == r_dir = [exists |-> FALSE, files |-> <<>>] /\ r_calls = {}

Init ==
    /\ listing \in Listings(Universe, MaxFiles)
    /\ cache = NoCache
    /\ widget = ALL
    /\ pc = "load_env"
    /\ prev = NoPrev
    /\ ScriptStart
    /\ ResolverIdle

----------------------------------------------------------------------------
(* with st.spinner: the two cached loaders *)

\* env_data = load_environment_data(), memoized by st.cache_data together
\* with the st.error elements it drew
LoadEnvironmentData ==
    /\ pc = "load_env"
    /\ LET r == IF cache.env # <<>> THEN cache.env[1] ELSE load_environment_data(listing)
       IN /\ env_data' = r.env_data
          /\ messages' = r.errors
          /\ cache' = [cache EXCEPT !.env = <<r>>]
    /\ pc' = "load_growth"
    /\ UNCHANGED <<listing, widget, prev, growth_data, selected_school, tab1Vars, avg_env,
                   tab3Vars, rendered, resolverVars>>

\* growth_data = load_growth_data()
LoadGrowthData ==
    /\ pc = "load_growth"
    /\ LET r == IF cache.growth # <<>> THEN cache.growth[1] ELSE load_growth_data(listing)
       IN /\ growth_data' = r
          /\ cache' = [cache EXCEPT !.growth = <<r>>]
    /\ pc' = "gate"
    /\ UNCHANGED <<listing, widget, prev, env_data, messages, selected_school, tab1Vars,
                   avg_env, tab3Vars, rendered, resolverVars>>

NotFoundMessage == <<0>>

\* a plausible slip: "and" for "or", halting only when both loads failed
LoadFailedBoth(env, growth) == env = <<>> /\ growth.none

\* not env_data or growth_data is None
LoadFailed(env, growth) == env = <<>> \/ growth.none

\* if not env_data or growth_data is None: st.error(...); st.stop()
Gate ==
    /\ pc = "gate"
    /\ IF LoadFailed(env_data, growth_data)
       THEN /\ messages' = Append(messages, NotFoundMessage)
            /\ pc' = "halted"
       ELSE /\ pc' = "sidebar"
            /\ UNCHANGED messages
    /\ UNCHANGED <<procVars, env_data, growth_data, selected_school, tab1Vars, avg_env,
                   tab3Vars, rendered, resolverVars>>

\* selected_school = st.sidebar.selectbox(...); st.title; st.tabs
Sidebar ==
    /\ pc = "sidebar"
    /\ selected_school' = widget
    /\ rendered' = Append(rendered, "sidebar")
    /\ pc' = "tab1"
    /\ UNCHANGED <<procVars, dataVars, tab1Vars, avg_env, tab3Vars, resolverVars>>

----------------------------------------------------------------------------
(* TAB 1 *)

\* count = len(growth_data.get(school, []))
SpecimenCount(growth, school) ==
    IF DictHas(growth, school) THEN Len(DictGet(growth, school).rows) ELSE 0

\* overview_rows: one row per configured school, in configuration order
OverviewRows(growth) ==
    [i \in 1..Len(EC_CONDITIONS) |->
        [school |-> EC_CONDITIONS[i].k, ec |-> EC_CONDITIONS[i].v,
         count |-> SpecimenCount(growth, EC_CONDITIONS[i].k)]]

RECURSIVE SumCounts(_)
SumCounts(rows) == IF rows = <<>> THEN 0 ELSE Head(rows).count + SumCounts(Tail(rows))

\* c4.metric("optimal EC", "2.0 (Haneul)", delta = "highest fresh weight")
OptimalECMetric == [ec |-> 2, school |-> Haneul]

Tab1 ==
    /\ pc = "tab1"
    /\ overview_rows' = OverviewRows(growth_data.d)
    /\ total_plants' = SumCounts(OverviewRows(growth_data.d))
    /\ IF ConcatHasCol(env_data, "temperature") /\ ConcatHasCol(env_data, "humidity")
       THEN /\ avg_temp' = ConcatMean(env_data, "temperature")
            /\ avg_hum' = ConcatMean(env_data, "humidity")
            /\ c4' = <<OptimalECMetric>>
            /\ rendered' = rendered \o <<"overview", "metrics">>
            /\ pc' = "tab2"
       ELSE \* KeyError out of pd.concat(...)[column], after the overview table
            /\ rendered' = Append(rendered, "overview")
            /\ pc' = "fault"
            /\ UNCHANGED <<avg_temp, avg_hum, c4>>
    /\ UNCHANGED <<procVars, dataVars, selected_school, avg_env, tab3Vars, resolverVars>>

----------------------------------------------------------------------------
(* TAB 2 *)

AvgEnvCols == {"temperature", "humidity", "ph", "ec"}
TimeSeriesCols == {"time", "temperature", "humidity", "ec"}

\* avg_env: one row per key of env_data, in its insertion order
AvgEnv(env) ==
    [i \in 1..Len(env) |->
        [school |-> env[i].k,
         temperature |-> Mean(env[i].v, "temperature"),
         humidity |-> Mean(env[i].v, "humidity"),
         ph |-> Mean(env[i].v, "ph"),
         ec |-> Mean(env[i].v, "ec")]]

Tab2 ==
    /\ pc = "tab2"
    /\ IF \E i \in 1..Len(env_data) : ~(AvgEnvCols \subseteq env_data[i].v.cols)
       THEN \* KeyError out of df[column] while avg_env is built
            /\ pc' = "fault"
            /\ UNCHANGED <<avg_env, rendered>>
       ELSE /\ avg_env' = AvgEnv(env_data)
            /\ IF selected_school = ALL
               THEN /\ rendered' = Append(rendered, "env_means")
                    /\ pc' = "tab3"
               ELSE IF DictHas(env_data, selected_school)
                       /\ TimeSeriesCols \subseteq DictGet(env_data, selected_school).cols
                       /\ DictHas(EC_CONDITIONS, selected_school)
               THEN /\ rendered' = rendered \o <<"env_means", "time_series">>
                    /\ pc' = "tab3"
               ELSE \* KeyError out of env_data[selected_school] or df[column]
                    /\ rendered' = Append(rendered, "env_means")
                    /\ pc' = "fault"
    /\ UNCHANGED <<procVars, dataVars, selected_school, tab1Vars, tab3Vars, resolverVars>>

----------------------------------------------------------------------------
(* TAB 3 *)

\* summary: one row per sheet of growth_data, in its insertion order
Summary(growth) ==
    [i \in 1..Len(growth) |->
        [school |-> growth[i].k,
         EC |-> ECGet(growth[i].k),
         mean |-> Mean(growth[i].v, "fresh_weight"),
         count |-> Len(growth[i].v.rows)]]

\* Series.idxmax(): the first row holding the largest non-NaN mean; 0 when
\* there is none (no row, or every mean NaN), where pandas raises
IdxMax(rows) ==
    IF \A i \in 1..Len(rows) : rows[i].mean.nan THEN 0
    ELSE CHOOSE i \in 1..Len(rows) :
            /\ ~rows[i].mean.nan
            /\ \A j \in 1..Len(rows) : ~Greater(rows[j].mean, rows[i].mean)
            /\ \A j \in 1..(i - 1) : ~SameValue(rows[j].mean, rows[i].mean)

Tab3 ==
    /\ pc = "tab3"
    /\ IF \E i \in 1..Len(growth_data.d) : "fresh_weight" \notin growth_data.d[i].v.cols
       THEN \* KeyError while summary is built
            /\ pc' = "fault"
            /\ UNCHANGED <<summary, best, rendered>>
       ELSE /\ summary' = Summary(growth_data.d)
            /\ IF IdxMax(Summary(growth_data.d)) = 0
               THEN \* idxmax / .loc raises: no row has a mean
                    /\ pc' = "fault"
                    /\ UNCHANGED <<best, rendered>>
               ELSE /\ best' = <<Summary(growth_data.d)[IdxMax(Summary(growth_data.d))]>>
                    /\ IF \A i \in 1..Len(growth_data.d) :
                              {"leaf_count", "shoot_length"} \subseteq growth_data.d[i].v.cols
                       THEN /\ rendered' = rendered \o <<"best", "growth_charts">>
                            /\ pc' = "done"
                       ELSE \* KeyError out of growth_data[s][column]
                            /\ rendered' = Append(rendered, "best")
                            /\ pc' = "fault"
    /\ UNCHANGED <<procVars, dataVars, selected_school, tab1Vars, avg_env, resolverVars>>

----------------------------------------------------------------------------
(* What starts the script again *)

Snapshot == [pc |-> pc, avg_env |-> avg_env, summary |-> summary, best |-> best]

\* the user picks another school in the sidebar: Streamlit reruns the script
\* in the same server process, the loaders' cache kept
UserSelects(school) ==
    /\ pc \in {"done", "fault"}
    /\ school # widget
    /\ widget' = school
    /\ prev' = Snapshot
    /\ pc' = "load_env"
    /\ ResetScript
    /\ UNCHANGED <<listing, cache, resolverVars>>

\* the server is started again over the same directory: empty cache, the
\* directory iterated in whatever order the file system yields now
Restart ==
    /\ pc \in {"done", "fault", "halted"}
    /\ listing' \in Orders(Range(listing))
    /\ cache' = NoCache
    /\ widget' = ALL
    /\ prev' = Snapshot
    /\ pc' = "load_env"
    /\ ResetScript
    /\ UNCHANGED resolverVars

Next ==
    \/ LoadEnvironmentData
    \/ LoadGrowthData
    \/ Gate
    \/ Sidebar
    \/ Tab1
    \/ Tab2
    \/ Tab3
    \/ \E i \in 1..Len(SCHOOLS) : UserSelects(SCHOOLS[i])
    \/ Restart

Spec == Init /\ [][Next]_vars

----------------------------------------------------------------------------
(* find_file_by_normalized_name on its own: a directory and target names    *)
(* drawn from bounded sets, the function applied to them.                   *)

\* the most entries of the directory searched, and the most calls recorded
MaxDirFiles == 2
MaxCalls == 2

ResolverNames ==
    {f.name : f \in {SongdoCsv, SongdoCsvNFD, HaneulCsv, AraCsv, NotesCsv}}
        \cup {NFC(HaneulCsv.name)}
ResolverTargets ==
    { EnvName(Songdo), NFD(EnvName(Songdo)),
      NFC(HaneulCsv.name), HaneulCsv.name,
      EnvName(Dongsan), NotesStem \o CsvSuffix }

InitResolver ==
    /\ r_dir \in {[exists |-> FALSE, files |-> <<>>]}
                 \cup {[exists |-> TRUE, files |-> l] : l \in Listings(ResolverNames, MaxDirFiles)}
    /\ r_calls = {}
    /\ listing = <<>>
    /\ cache = NoCache
    /\ widget = ALL
    /\ pc = "idle"
    /\ prev = NoPrev
    /\ ScriptStart

Resolve(target_name) ==
    /\ Cardinality(r_calls) < MaxCalls
    /\ r_calls' = r_calls \cup
           {[target |-> target_name,
             result |-> find_file_by_normalized_name(r_dir, target_name)]}
    /\ UNCHANGED <<r_dir, procVars, pc, dataVars, selected_school, tab1Vars, avg_env,
                   tab3Vars, rendered>>

NextResolver == \E t \in ResolverTargets : Resolve(t)

SpecResolver == InitResolver /\ [][NextResolver]_vars

----------------------------------------------------------------------------
(* Properties *)

AfterGate == pc \in {"sidebar", "tab1", "tab2", "tab3", "done", "fault", "halted"}
IsCsv(f) == Lower(Suffix(f.name)) = CsvSuffix
IsXlsx(f) == Lower(Suffix(f.name)) = XlsxSuffix
\* the environment dataset key a .csv file name stands for
KeyOf(f) == Remove(NFC(Stem(f.name)), EnvMarker)
\* f is the environment file of the configured school g
IsEnvFileOf(f, g) == IsCsv(f) /\ NFC(Stem(f.name)) = g \o EnvMarker

\* C1: the dashboard body is reached only with a non-empty environment
\* dataset and a loaded growth workbook; when either is missing (no
\* parseable .csv, no .xlsx, or the load's failure value) the run has shown
\* the error message and halted with nothing rendered.
C1_StartupGate ==
    /\ (rendered # <<>> \/ pc \in {"sidebar", "tab1", "tab2", "tab3", "done", "fault"})
          => (env_data # <<>> /\ ~growth_data.none)
    /\ (AfterGate /\ (env_data = <<>> \/ growth_data.none)) => pc = "halted"
    /\ (AfterGate /\ ( (\A f \in Range(listing) : ~(IsCsv(f) /\ f.readable))
                       \/ (\A f \in Range(listing) : ~IsXlsx(f)) ))
          => pc = "halted"
    /\ pc = "halted" =>
          /\ rendered = <<>>
          /\ messages # <<>>
          /\ messages[Len(messages)] = NotFoundMessage

\* environment files were loaded, the growth load failed, and the run halted
C1_Witness ==
    pc = "halted" /\ env_data # <<>> /\ growth_data.none /\ rendered = <<>>

\* C2: for a load that passes the gate with well-formed tables of configured
\* schools only, and any sidebar selection, rendering ends without an
\* unhandled fault.
C2_NoRenderFault ==
    ( /\ DictKeys(env_data) \subseteq Groups
      /\ \A i \in 1..Len(env_data) : EnvCols \subseteq env_data[i].v.cols
      /\ \A i \in 1..Len(growth_data.d) : GrowthCols \subseteq growth_data.d[i].v.cols )
    => pc # "fault"

\* C3: after load_environment_data the keys of env_data are exactly the
\* configured schools whose environment file is present and parseable.
C3_EnvKeysAreGroups ==
    pc # "load_env" =>
        DictKeys(env_data) =
            {g \in Groups : \E f \in Range(listing) : f.readable /\ IsEnvFileOf(f, g)}

\* C4 (stated of the state each loader returns into): every parseable .csv
\* file of the directory is loaded wherever the unparseable ones stand in the iteration, each unparseable one is reported
\* once by name and contributes nothing; the growth load is the failure value
\* exactly when there is no workbook or the workbook or one of its sheets
\* fails to parse, and otherwise holds every sheet of the workbook.
C4_FailureGranularity ==
    /\ pc = "load_growth" =>
          LET n == Len(listing)
              good == {i \in 1..n : IsCsv(listing[i]) /\ listing[i].readable}
          IN
          \* loaded: the <<key, table>> of every parseable .csv file
          /\ \E loaded \in {{<<KeyOf(listing[i]), listing[i].df>> : i \in good}} :
                /\ DictKeys(env_data) = {p[1] : p \in loaded}
                /\ \A e \in 1..Len(env_data) : <<env_data[e].k, env_data[e].v>> \in loaded
          /\ \A i \in 1..n :
                Cardinality({m \in 1..Len(messages) : messages[m] = listing[i].name})
                    = IF IsCsv(listing[i]) /\ ~listing[i].readable THEN 1 ELSE 0
    /\ pc = "gate" =>
          LET x == FirstXlsx(listing) IN
          /\ growth_data.none <=>
                \/ x = <<>>
                \/ ~x[1].readable
                \/ \E i \in 1..Len(x[1].sheets) : ~x[1].sheets[i].readable
          /\ ~growth_data.none =>
                DictKeys(growth_data.d) = {NFC(x[1].sheets[i].name) : i \in 1..Len(x[1].sheets)}
          /\ growth_data.none => growth_data.d = <<>>

\* an unparseable .csv comes first, a parseable one after it is loaded, and
\* the workbook's second sheet fails so the growth load is the failure value
C4_Witness ==
    /\ listing = <<AraCsv, SongdoCsv, BadSheetXlsx>>
    /\ pc = "halted"
    /\ DictHas(env_data, Songdo)
    /\ growth_data = None

ConfigIndex(school) ==
    IF DictHas(EC_CONDITIONS, school)
    THEN CHOOSE i \in 1..Len(EC_CONDITIONS) : EC_CONDITIONS[i].k = school
    ELSE 0

\* C5: the reported best school has a mean no other school exceeds and,
\* among the schools sharing that mean, is the first in the order of
\* EC_CONDITIONS, whatever the order of the sheets.
C5_BestIsFirstConfigured ==
    best # <<>> =>
        /\ \A i \in 1..Len(summary) : ~Greater(summary[i].mean, best[1].mean)
        /\ ConfigIndex(best[1].school) # 0
        /\ \A i \in 1..Len(summary) :
              (SameValue(summary[i].mean, best[1].mean) /\ ConfigIndex(summary[i].school) # 0)
                  => ConfigIndex(best[1].school) <= ConfigIndex(summary[i].school)

\* C6: a configured school with no records is shown as missing in every
\* summary: its overview row does not carry the number 0, and its rows of
\* the environment means and of the growth means carry NaN, not a number.
C6_NoDataIsNotZero ==
    /\ \A i \in 1..Len(overview_rows) :
          (~DictHas(growth_data.d, overview_rows[i].school)
             \/ DictGet(growth_data.d, overview_rows[i].school).rows = <<>>)
              => overview_rows[i].count # 0
    /\ \A i \in 1..Len(avg_env) :
          DictGet(env_data, avg_env[i].school).rows = <<>> => avg_env[i].temperature.nan
    /\ \A i \in 1..Len(summary) :
          summary[i].count = 0 => summary[i].mean.nan

\* C9: two runs over the same directory that both complete show the same
\* environment means, growth summary and best school.
C9_RunsAgree ==
    (prev.pc = "done" /\ pc = "done") =>
        /\ prev.avg_env = avg_env
        /\ prev.summary = summary
        /\ prev.best = best

\* C10: the optimal EC and school of the overview metric are those of the
\* school the growth tab computes as having the highest mean fresh weight.
C10_OptimalECConsistent ==
    pc = "done" =>
        /\ c4 # <<>>
        /\ best # <<>>
        /\ <<c4[1].ec>> = best[1].EC
        /\ c4[1].school = best[1].school

\* C7: two target names with the same NFC form get the same result, and a
\* directory entry whose name has the target's NFC form is found (the first
\* such entry of the iteration), whichever form the entry and the target are
\* stored in.
C7_NormalizationInvariance ==
    \* T: each call with its target's NFC form; F: the NFC form of each entry
    \E T \in {{<<c, NFC(c.target)>> : c \in r_calls}} :
    \E F \in {[i \in 1..Len(r_dir.files) |-> NFC(r_dir.files[i])]} :
        /\ \A p, q \in T : p[2] = q[2] => p[1].result = q[1].result
        /\ \A p \in T :
              r_dir.exists =>
                  LET hits == {i \in 1..Len(F) : F[i] = p[2]}
                  IN IF hits = {} THEN p[1].result.file = <<>>
                     ELSE p[1].result.file
                              = <<r_dir.files[CHOOSE i \in hits : \A j \in hits : i <= j]>>

\* a composed and a decomposed target both resolved to an entry stored in
\* the form the other target has
C7_Witness ==
    \E c1, c2 \in r_calls :
        /\ c1.target # c2.target
        /\ NFC(c1.target) = NFC(c2.target)
        /\ c1.target = NFC(c1.target)
        /\ c1.result.file # <<>>
        /\ c1.result.file[1] # c1.target
        /\ c2.result.file = c1.result.file

\* C8: the resolver never raises; without a match, the directory absent
\* included, it returns None.
C8_ResolverNeverRaises ==
    \A c \in r_calls :
        /\ ~c.result.raised
        /\ (\A i \in 1..Len(r_dir.files) : NFC(r_dir.files[i]) # NFC(c.target))
              => c.result.file = <<>>

====
